---------------------------- MODULE Spec2Model ----------------------------
(***************************************************************************)
(* Rigel-A receiver firmware (rigel-a-rx/rigel-a-sw/src/main.cpp).         *)
(*                                                                         *)
(* The Arduino runtime calls setup() once and then loop() for ever.  The   *)
(* program is a single thread of control; pc is the source line about to   *)
(* execute.  The radio library and the serial port are the environment:    *)
(* every radio call returns a status drawn from StatusCodes, receive()     *)
(* delivers a packet drawn from Packets.                                   *)
(*                                                                         *)
(* calls is the record of the radio calls made by setup(), rxCalls the     *)
(* record of the calls made by the current invocation of loop(); Serial2   *)
(* holds the lines written by setup() (boot), the lines written by the     *)
(* current invocation of loop() (iter) and the unterminated line (cur).    *)
(* The per-invocation part is emptied when loop() is entered again, which  *)
(* keeps the state space finite while the loop runs for ever.              *)
(***************************************************************************)
EXTENDS Integers, Sequences, FiniteSets, TLC

VARIABLES pc, state, str, radio, pkt, calls, rxCalls, Serial2

vars == <<pc, state, str, radio, pkt, calls, rxCalls, Serial2>>

(***************************************************************************)
(* Status codes of the radio library, as the program compares them.        *)
(***************************************************************************)
RADIOLIB_ERR_NONE == 0

RADIOLIB_ERR_RX_TIMEOUT == -6

RADIOLIB_ERR_CRC_MISMATCH == -7

\* Number of further error codes (-1, -2, ...) the environment may return.
MaxOther == 2

OtherCodes ==
  { -i : i \in 1..MaxOther } \ {RADIOLIB_ERR_RX_TIMEOUT, RADIOLIB_ERR_CRC_MISMATCH}

StatusCodes ==
  {RADIOLIB_ERR_NONE, RADIOLIB_ERR_RX_TIMEOUT, RADIOLIB_ERR_CRC_MISMATCH}
    \cup OtherCodes

(***************************************************************************)
(* Packets on the air.  rssi and snr are in hundredths of a dBm / dB: the  *)
(* radio reports RSSI in steps of 0.5 dBm and SNR in steps of 0.25 dB.     *)
(***************************************************************************)
Payloads == {"HELLO", "HI"}

RssiValues == {-9050, -4000}

SnrValues == {-725, 950}

Packets == [payload : Payloads, rssi : RssiValues, snr : SnrValues]

NoPacket == [present |-> FALSE, payload |-> "", rssi |-> 0, snr |-> 0]

Arrived(p) ==
  [present |-> TRUE, payload |-> p.payload, rssi |-> p.rssi, snr |-> p.snr]

(***************************************************************************)
(* Serial2: print appends to the unterminated line, println ends it.       *)
(* Lines go to boot while setup() runs and to iter while loop() runs.      *)
(***************************************************************************)
SerialPrint(s, text) == [s EXCEPT !.cur = @ \o text]

SerialPrintlnBoot(s, text) ==
  [s EXCEPT !.boot = Append(@, s.cur \o text), !.cur = ""]

SerialPrintlnIter(s, text) ==
  [s EXCEPT !.iter = Append(@, s.cur \o text), !.cur = ""]

\* Print::print(int): the decimal digits, with a leading minus sign.
FormatInt(n) == ToString(n)

Digit(d) == ToString(d)

\* Print::print(double) with the default two decimals; c is the value in
\* hundredths, so the rounding to two decimals is exact.
Abs(c) == IF c < 0 THEN -c ELSE c

FormatFloat(c) ==
  (IF c < 0 THEN "-" ELSE "")
    \o ToString(Abs(c) \div 100) \o "."
    \o Digit((Abs(c) % 100) \div 10) \o Digit(Abs(c) % 10)

Call(fn, ret) == [fn |-> fn, ret |-> ret]

(***************************************************************************)
(* The state: pc, the line about to execute; state, the int state of       *)
(* setup() and of loop(); str, the String of loop(); radio, the STM32WLx   *)
(* object (switch table installed, RSSI and SNR of the last packet); pkt,  *)
(* the packet delivered by the receive of this invocation of loop();       *)
(* calls, rxCalls and Serial2 as described above.                          *)
(***************************************************************************)
Lines == {"L55", "L59", "L62", "L75", "L80", "L84", "L85", "L86", "L87", "L89",
          "L94", "L96", "L103", "L111", "L121", "L127", "L145"}

TypeOK ==
  /\ pc \in Lines
  /\ state \in StatusCodes
  /\ str \in Payloads \cup {""}
  /\ radio \in [rfswitch : BOOLEAN, rssi : RssiValues \cup {0}, snr : SnrValues \cup {0}]
  /\ pkt \in {NoPacket} \cup {Arrived(p) : p \in Packets}
  /\ \A i \in DOMAIN calls : calls[i].ret \in StatusCodes
  /\ \A i \in DOMAIN rxCalls :
       rxCalls[i].ret \in StatusCodes \cup RssiValues \cup SnrValues
  /\ Serial2.baud \in {0, 115200}
  /\ Len(calls) <= 6 /\ Len(rxCalls) <= 3
  /\ Len(Serial2.boot) <= 2 /\ Len(Serial2.iter) <= 4

(***************************************************************************)
(* State after the globals are constructed, before setup() runs.           *)
(***************************************************************************)
Init ==
  /\ pc = "L55"
  /\ state = RADIOLIB_ERR_NONE
  /\ str = ""
  /\ radio = [rfswitch |-> FALSE, rssi |-> 0, snr |-> 0]
  /\ pkt = NoPacket
  /\ calls = <<>>
  /\ rxCalls = <<>>
  /\ Serial2 = [baud |-> 0, boot |-> <<>>, iter |-> <<>>, cur |-> ""]

(***************************************************************************)
(* setup()                                                                 *)
(***************************************************************************)
\* line 55: Serial2.begin(115200)
SerialBegin ==
  /\ pc = "L55"
  /\ Serial2' = [Serial2 EXCEPT !.baud = 115200]
  /\ pc' = "L59"
  /\ UNCHANGED <<state, str, radio, pkt, calls, rxCalls>>

\* setup() without line 59: the switch table is never installed
SetRfSwitchTable_skipped ==
  /\ pc = "L59"
  /\ pc' = "L62"
  /\ UNCHANGED <<state, str, radio, pkt, calls, rxCalls, Serial2>>

\* line 59: radio.setRfSwitchTable(rfswitch_pins, rfswitch_table); returns void
SetRfSwitchTable ==
  /\ pc = "L59"
  /\ radio' = [radio EXCEPT !.rfswitch = TRUE]
  /\ calls' = Append(calls, Call("setRfSwitchTable", RADIOLIB_ERR_NONE))
  /\ pc' = "L62"
  /\ UNCHANGED <<state, str, pkt, rxCalls, Serial2>>

\* lines 62-73: print the banner, int state = radio.begin(...)
Begin ==
  /\ pc = "L62"
  /\ \E s \in StatusCodes :
       /\ state' = s
       /\ calls' = Append(calls, Call("begin", s))
  /\ Serial2' = SerialPrint(Serial2, "[STM32WL] Initializing ... ")
  /\ pc' = "L75"
  /\ UNCHANGED <<str, radio, pkt, rxCalls>>

\* lines 75-81 without the while (true); of line 80
CheckBegin_noHalt ==
  /\ pc = "L75"
  /\ IF state = RADIOLIB_ERR_NONE
       THEN Serial2' = SerialPrintlnBoot(Serial2, "success!")
       ELSE Serial2' = SerialPrintlnBoot(SerialPrint(Serial2, "failed, code "),
                                         FormatInt(state))
  /\ pc' = "L84"
  /\ UNCHANGED <<state, str, radio, pkt, calls, rxCalls>>

\* lines 75-81: report begin's status; while (true); on failure
CheckBegin ==
  /\ pc = "L75"
  /\ IF state = RADIOLIB_ERR_NONE
       THEN /\ Serial2' = SerialPrintlnBoot(Serial2, "success!")
            /\ pc' = "L84"
       ELSE /\ Serial2' = SerialPrintlnBoot(SerialPrint(Serial2, "failed, code "),
                                            FormatInt(state))
            /\ pc' = "L80"
  /\ UNCHANGED <<state, str, radio, pkt, calls, rxCalls>>

\* line 84: state = radio.setTCXO(3.0)
SetTCXO ==
  /\ pc = "L84"
  /\ \E s \in StatusCodes :
       /\ state' = s
       /\ calls' = Append(calls, Call("setTCXO", s))
  /\ pc' = "L85"
  /\ UNCHANGED <<str, radio, pkt, rxCalls, Serial2>>

\* line 85: radio.forceLDRO(true); the status returned is discarded
ForceLDRO ==
  /\ pc = "L85"
  /\ \E s \in StatusCodes : calls' = Append(calls, Call("forceLDRO", s))
  /\ pc' = "L86"
  /\ UNCHANGED <<state, str, radio, pkt, rxCalls, Serial2>>

\* setup() without line 86
SetRxBoostedGainMode_skipped ==
  /\ pc = "L86"
  /\ pc' = "L87"
  /\ UNCHANGED <<state, str, radio, pkt, calls, rxCalls, Serial2>>

\* line 86: radio.setRxBoostedGainMode(true); the status returned is discarded
SetRxBoostedGainMode ==
  /\ pc = "L86"
  /\ \E s \in StatusCodes : calls' = Append(calls, Call("setRxBoostedGainMode", s))
  /\ pc' = "L87"
  /\ UNCHANGED <<state, str, radio, pkt, rxCalls, Serial2>>

\* line 87 written as state = radio.implicitHeader(8)
ImplicitHeader_assigned ==
  /\ pc = "L87"
  /\ \E s \in StatusCodes :
       /\ state' = s
       /\ calls' = Append(calls, Call("implicitHeader", s))
  /\ pc' = "L89"
  /\ UNCHANGED <<str, radio, pkt, rxCalls, Serial2>>

\* line 87: radio.implicitHeader(8); the status returned is discarded
ImplicitHeader ==
  /\ pc = "L87"
  /\ \E s \in StatusCodes : calls' = Append(calls, Call("implicitHeader", s))
  /\ pc' = "L89"
  /\ UNCHANGED <<state, str, radio, pkt, rxCalls, Serial2>>

\* lines 89-95 without the while (true); of line 94
CheckTuning_noHalt ==
  /\ pc = "L89"
  /\ IF state = RADIOLIB_ERR_NONE
       THEN Serial2' = SerialPrintlnBoot(Serial2, "success!")
       ELSE Serial2' = SerialPrintlnBoot(SerialPrint(Serial2, "failed, code "),
                                         FormatInt(state))
  /\ pc' = "L96"
  /\ UNCHANGED <<state, str, radio, pkt, calls, rxCalls>>

\* lines 89-95: report the status held in state; while (true); on failure
CheckTuning ==
  /\ pc = "L89"
  /\ IF state = RADIOLIB_ERR_NONE
       THEN /\ Serial2' = SerialPrintlnBoot(Serial2, "success!")
            /\ pc' = "L96"
       ELSE /\ Serial2' = SerialPrintlnBoot(SerialPrint(Serial2, "failed, code "),
                                            FormatInt(state))
            /\ pc' = "L94"
  /\ UNCHANGED <<state, str, radio, pkt, calls, rxCalls>>

(***************************************************************************)
(* loop()                                                                  *)
(***************************************************************************)
\* lines 98-102: loop() is entered (after setup() returned, or after the
\* previous invocation returned); print the banner, String str is empty
LoopEnter ==
  /\ pc \in {"L96", "L145"}
  /\ Serial2' = SerialPrint([Serial2 EXCEPT !.iter = <<>>],
                      "[STM32WL] Waiting for incoming transmission ... ")
  /\ str' = ""
  /\ state' = RADIOLIB_ERR_NONE
  /\ pkt' = NoPacket
  /\ rxCalls' = <<>>
  /\ pc' = "L103"
  /\ UNCHANGED <<radio, calls>>

\* line 103: int state = radio.receive(str).  The library fills str and the
\* radio's packet status (RSSI, SNR) when a packet arrived: on success, and
\* on a CRC mismatch, where str may or may not be filled with the damaged
\* payload.  Every other status leaves str and the packet status alone.
Receive ==
  /\ pc = "L103"
  /\ \E s \in StatusCodes :
       /\ state' = s
       /\ rxCalls' = Append(rxCalls, Call("receive", s))
       /\ IF s \in {RADIOLIB_ERR_NONE, RADIOLIB_ERR_CRC_MISMATCH}
            THEN \E p \in Packets :
                   /\ pkt' = Arrived(p)
                   /\ radio' = [radio EXCEPT !.rssi = p.rssi, !.snr = p.snr]
                   /\ str' \in IF s = RADIOLIB_ERR_NONE
                                 THEN {p.payload}
                                 ELSE {p.payload, ""}
            ELSE UNCHANGED <<pkt, radio, str>>
  /\ pc' = "L111"
  /\ UNCHANGED <<calls, Serial2>>

\* lines 111-117: success, print the data of the packet
ReportSuccess ==
  /\ pc = "L111"
  /\ state = RADIOLIB_ERR_NONE
  /\ Serial2' = SerialPrintlnIter(SerialPrint(SerialPrintlnIter(Serial2, "success!"),
                                  "[STM32WL] Data:\t\t"), str)
  /\ pc' = "L121"
  /\ UNCHANGED <<state, str, radio, pkt, calls, rxCalls>>

\* loop() without the branch of lines 131-133: a timeout is reported by its code
ReportTimeout_asOther ==
  /\ pc = "L111"
  /\ state = RADIOLIB_ERR_RX_TIMEOUT
  /\ Serial2' = SerialPrintlnIter(SerialPrint(Serial2, "failed, code "), FormatInt(state))
  /\ pc' = "L145"
  /\ UNCHANGED <<state, str, radio, pkt, calls, rxCalls>>

\* lines 131-133
ReportTimeout ==
  /\ pc = "L111"
  /\ state # RADIOLIB_ERR_NONE
  /\ state = RADIOLIB_ERR_RX_TIMEOUT
  /\ Serial2' = SerialPrintlnIter(Serial2, "timeout!")
  /\ pc' = "L145"
  /\ UNCHANGED <<state, str, radio, pkt, calls, rxCalls>>

\* lines 135-137 printing the data line as the success branch does
ReportCrcMismatch_printsData ==
  /\ pc = "L111"
  /\ state = RADIOLIB_ERR_CRC_MISMATCH
  /\ Serial2' = SerialPrintlnIter(SerialPrint(SerialPrintlnIter(Serial2, "CRC error!"),
                                              "[STM32WL] Data:\t\t"), str)
  /\ pc' = "L145"
  /\ UNCHANGED <<state, str, radio, pkt, calls, rxCalls>>

\* lines 135-137
ReportCrcMismatch ==
  /\ pc = "L111"
  /\ state \notin {RADIOLIB_ERR_NONE, RADIOLIB_ERR_RX_TIMEOUT}
  /\ state = RADIOLIB_ERR_CRC_MISMATCH
  /\ Serial2' = SerialPrintlnIter(Serial2, "CRC error!")
  /\ pc' = "L145"
  /\ UNCHANGED <<state, str, radio, pkt, calls, rxCalls>>

\* lines 139-144 ending in while (true); as the tests of setup() do
ReportOther_halts ==
  /\ pc = "L111"
  /\ state \notin {RADIOLIB_ERR_NONE, RADIOLIB_ERR_RX_TIMEOUT,
                   RADIOLIB_ERR_CRC_MISMATCH}
  /\ Serial2' = SerialPrintlnIter(SerialPrint(Serial2, "failed, code "), FormatInt(state))
  /\ pc' = "L94"
  /\ UNCHANGED <<state, str, radio, pkt, calls, rxCalls>>

\* lines 139-144
ReportOther ==
  /\ pc = "L111"
  /\ state \notin {RADIOLIB_ERR_NONE, RADIOLIB_ERR_RX_TIMEOUT,
                   RADIOLIB_ERR_CRC_MISMATCH}
  /\ Serial2' = SerialPrintlnIter(SerialPrint(Serial2, "failed, code "), FormatInt(state))
  /\ pc' = "L145"
  /\ UNCHANGED <<state, str, radio, pkt, calls, rxCalls>>

\* lines 121-123 calling getSNR() where getRSSI() is meant
PrintRSSI_copyPaste ==
  /\ pc = "L121"
  /\ rxCalls' = Append(rxCalls, Call("getSNR", radio.snr))
  /\ Serial2' = SerialPrintlnIter(SerialPrint(SerialPrint(Serial2, "[STM32WL] RSSI:\t\t"),
                                              FormatFloat(radio.snr)), " dBm")
  /\ pc' = "L127"
  /\ UNCHANGED <<state, str, radio, pkt, calls>>

\* lines 121-123: radio.getRSSI() is the RSSI of the last received packet
PrintRSSI ==
  /\ pc = "L121"
  /\ rxCalls' = Append(rxCalls, Call("getRSSI", radio.rssi))
  /\ Serial2' = SerialPrintlnIter(SerialPrint(SerialPrint(Serial2, "[STM32WL] RSSI:\t\t"),
                                  FormatFloat(radio.rssi)), " dBm")
  /\ pc' = "L127"
  /\ UNCHANGED <<state, str, radio, pkt, calls>>

\* lines 127-129: radio.getSNR() is the SNR of the last received packet
PrintSNR ==
  /\ pc = "L127"
  /\ rxCalls' = Append(rxCalls, Call("getSNR", radio.snr))
  /\ Serial2' = SerialPrintlnIter(SerialPrint(SerialPrint(Serial2, "[STM32WL] SNR:\t\t"),
                                  FormatFloat(radio.snr)), " dB")
  /\ pc' = "L145"
  /\ UNCHANGED <<state, str, radio, pkt, calls>>

(***************************************************************************)
(* At L80 and L94 the program spins in while (true); no step is enabled.   *)
(* The loop has no exit and the toolchain keeps it as an endless spin, so  *)
(* the only outcome is that the program stays there with nothing changed.  *)
(***************************************************************************)
Next ==
  \/ SerialBegin
  \/ SetRfSwitchTable
  \/ Begin
  \/ CheckBegin
  \/ SetTCXO
  \/ ForceLDRO
  \/ SetRxBoostedGainMode
  \/ ImplicitHeader
  \/ CheckTuning
  \/ LoopEnter
  \/ Receive
  \/ ReportSuccess
  \/ ReportTimeout
  \/ ReportCrcMismatch
  \/ ReportOther
  \/ PrintRSSI
  \/ PrintSNR

Spec == Init /\ [][Next]_vars

\* The processor keeps executing: a step that is enabled is taken, and
\* every blocking receive returns.
LiveSpec == Spec /\ WF_vars(Next)

(***************************************************************************)
(* Vocabulary of the properties.                                           *)
(***************************************************************************)
SetupPcs == {"L55", "L59", "L62", "L75", "L80", "L84", "L85", "L86", "L87",
             "L89", "L94"}

LoopPcs == {"L103", "L111", "L121", "L127", "L145"}

\* setup() has returned
SetupReturned == pc \in {"L96"} \cup LoopPcs

\* the test of lines 89-95 has been executed
TuningChecked == pc \in {"L94", "L96"} \cup LoopPcs

Halted == pc \in {"L80", "L94"}

TuningFns == <<"setTCXO", "forceLDRO", "setRxBoostedGainMode", "implicitHeader">>

TuningSet == {TuningFns[i] : i \in DOMAIN TuningFns}

Made(fn) == \E i \in DOMAIN calls : calls[i].fn = fn

\* status returned by setup()'s call of fn
Ret(fn) == calls[CHOOSE i \in DOMAIN calls : calls[i].fn = fn].ret

FailLine(code) == "failed, code " \o FormatInt(code)

InitBanner == "[STM32WL] Initializing ... "

WaitBanner == "[STM32WL] Waiting for incoming transmission ... "

IsPrefix(s, t) == Len(s) <= Len(t) /\ \A i \in DOMAIN s : s[i] = t[i]

\* the receive of the current invocation of loop() has returned status s
ReceiveReturned(s) == rxCalls # <<>> /\ rxCalls[1] = Call("receive", s)

(***************************************************************************)
(* C1: if radio.begin returns a status other than success, the program     *)
(* prints one failure line carrying that code and halts: in that state and *)
(* in every later one no tuning call has been made, no receive has been    *)
(* issued and the output is that single line.                              *)
(***************************************************************************)
C1_BeginFailureHalts ==
  \A i \in DOMAIN calls :
    (calls[i].fn = "begin" /\ calls[i].ret # RADIOLIB_ERR_NONE) =>
      /\ pc \in {"L75", "L80"}
      /\ Len(calls) = i
      /\ rxCalls = <<>>
      /\ Serial2.iter = <<>>
      /\ pc = "L75" => Serial2.boot = <<>>
      /\ pc = "L80" => /\ Serial2.boot = <<InitBanner \o FailLine(calls[i].ret)>>
                       /\ Serial2.cur = ""

C1_Witness ==
  /\ pc = "L80"
  /\ Made("begin") /\ Ret("begin") = -2
  /\ Serial2.boot = <<"[STM32WL] Initializing ... failed, code -2">>

(***************************************************************************)
(* C3: the RF switch table is installed before any radio configuration     *)
(* call: every step that makes a call other than setRfSwitchTable starts   *)
(* in a state where the table is installed.                                *)
(***************************************************************************)
C3_SwitchTableFirst ==
  [][ /\ (Len(calls') > Len(calls) /\ calls'[Len(calls')].fn # "setRfSwitchTable")
           => radio.rfswitch
      /\ Len(rxCalls') > Len(rxCalls) => radio.rfswitch ]_vars

C3_Witness ==
  /\ radio.rfswitch
  /\ Len(calls) = 6
  /\ ReceiveReturned(RADIOLIB_ERR_NONE)

(***************************************************************************)
(* C4: the four tuning calls are made exactly once, in the order setTCXO,  *)
(* forceLDRO, setRxBoostedGainMode, implicitHeader, and only after a begin *)
(* that returned success; loop() makes none of them.                       *)
(***************************************************************************)
C4_TuningOnceInOrder ==
  /\ IsPrefix([i \in DOMAIN calls |-> calls[i].fn],
              <<"setRfSwitchTable", "begin">> \o TuningFns)
  /\ Len(calls) > 2 => calls[2].ret = RADIOLIB_ERR_NONE
  /\ (/\ Made("begin") /\ Ret("begin") = RADIOLIB_ERR_NONE
      /\ pc \notin {"L75", "L84", "L85", "L86", "L87"}) => Len(calls) = 6
  /\ \A i \in DOMAIN rxCalls : rxCalls[i].fn \notin TuningSet

C4_Witness ==
  /\ pc = "L89"
  /\ [i \in DOMAIN calls |-> calls[i].fn] = <<"setRfSwitchTable", "begin">> \o TuningFns
  /\ Ret("begin") = RADIOLIB_ERR_NONE

(***************************************************************************)
(* C2, as stated: a failure of any of the four tuning calls is reported    *)
(* and is not fatal.  For every tuning call that returned a failure the    *)
(* program never halts and, once the test of lines 89-95 has run, a line   *)
(* reporting that status has been printed.                                 *)
(***************************************************************************)
C2_AnyTuningFailureReportedNotFatal ==
  \A i \in DOMAIN calls :
    (calls[i].fn \in TuningSet /\ calls[i].ret # RADIOLIB_ERR_NONE) =>
      /\ ~Halted
      /\ TuningChecked =>
           \E k \in DOMAIN Serial2.boot : Serial2.boot[k] = FailLine(calls[i].ret)

(***************************************************************************)
(* C2, amended: a failure of setTCXO is reported and is fatal, the program *)
(* halts at line 94 without ever issuing a receive.  A failure of          *)
(* forceLDRO, setRxBoostedGainMode or implicitHeader is neither reported   *)
(* nor fatal: when setTCXO succeeded the tuning report is "success!"       *)
(* whatever the three later calls returned, setup() returns, and the       *)
(* program goes on to issue a receive.                                     *)
(***************************************************************************)
C2_OnlyTcxoFailureFatal ==
  /\ [](TuningChecked =>
          IF Ret("setTCXO") # RADIOLIB_ERR_NONE
            THEN /\ pc = "L94"
                 /\ rxCalls = <<>>
                 /\ Serial2.boot = <<InitBanner \o "success!", FailLine(Ret("setTCXO"))>>
            ELSE /\ SetupReturned
                 /\ Serial2.boot = <<InitBanner \o "success!", "success!">>)
  /\ [](SetupReturned => <>(pc = "L111" /\ rxCalls # <<>>))

C2_Witness ==
  /\ pc = "L111"
  /\ rxCalls # <<>>
  /\ Ret("setTCXO") = RADIOLIB_ERR_NONE
  /\ Ret("forceLDRO") # RADIOLIB_ERR_NONE
  /\ Ret("setRxBoostedGainMode") # RADIOLIB_ERR_NONE
  /\ Ret("implicitHeader") # RADIOLIB_ERR_NONE

(***************************************************************************)
(* C5, as stated: the status tested after tuning is the status of the last *)
(* tuning call, implicitHeader; the report and the control flow depend on  *)
(* that status alone.                                                      *)
(***************************************************************************)
C5_LastCallStatusTested ==
  /\ pc = "L89" => state = Ret("implicitHeader")
  /\ TuningChecked =>
       /\ Serial2.boot[2] = IF Ret("implicitHeader") = RADIOLIB_ERR_NONE
                              THEN "success!"
                              ELSE FailLine(Ret("implicitHeader"))
       /\ pc = "L94" <=> Ret("implicitHeader") # RADIOLIB_ERR_NONE

(***************************************************************************)
(* C5, amended: the status tested after tuning is the status of the first  *)
(* tuning call, setTCXO, the only one assigned to state; the report and    *)
(* the control flow depend on that status alone, and the statuses of       *)
(* forceLDRO, setRxBoostedGainMode and implicitHeader have no effect.      *)
(***************************************************************************)
C5_FirstCallStatusTested ==
  /\ pc \in {"L85", "L86", "L87", "L89"} => state = Ret("setTCXO")
  /\ TuningChecked =>
       /\ Serial2.boot[2] = IF Ret("setTCXO") = RADIOLIB_ERR_NONE
                              THEN "success!"
                              ELSE FailLine(Ret("setTCXO"))
       /\ pc = "L94" <=> Ret("setTCXO") # RADIOLIB_ERR_NONE

C5_Witness ==
  /\ pc = "L94"
  /\ Ret("setTCXO") = -1
  /\ Ret("implicitHeader") = RADIOLIB_ERR_NONE
  /\ Serial2.boot[2] = "failed, code -1"

(***************************************************************************)
(* C6: there is no silent failure.  Every status other than success that a *)
(* radio call returned has a diagnostic line once the program has gone     *)
(* past the test that follows the call: begin's after lines 75-81, the     *)
(* tuning calls' after lines 89-95, receive's after lines 111-144.         *)
(***************************************************************************)
C6_NoSilentFailure ==
  /\ \A i \in DOMAIN calls :
       (calls[i].ret # RADIOLIB_ERR_NONE
          /\ IF calls[i].fn = "begin" THEN pc # "L75" ELSE TuningChecked) =>
         \E k \in DOMAIN Serial2.boot :
           Serial2.boot[k] \in {FailLine(calls[i].ret),
                                InitBanner \o FailLine(calls[i].ret)}
  /\ (rxCalls # <<>> /\ rxCalls[1].ret # RADIOLIB_ERR_NONE /\ pc = "L145") =>
       /\ Len(Serial2.iter) = 1
       /\ Serial2.iter[1] \in {WaitBanner \o "timeout!", WaitBanner \o "CRC error!",
                               WaitBanner \o FailLine(rxCalls[1].ret)}

(***************************************************************************)
(* C7: once setup() has returned the receive loop has no terminal state:   *)
(* whatever a receive returns, the program reports it and issues another   *)
(* receive, so a receive is issued, and returns, again and again; the      *)
(* program never halts.                                                    *)
(***************************************************************************)
C7_ReceiveForever ==
  [](SetupReturned => ([]<>(pc = "L103") /\ []<>(pc = "L111") /\ []~Halted))

\* a receive has returned an error in an invocation of loop() that follows
\* one in which a packet had arrived
C7_Witness ==
  /\ pc = "L111"
  /\ ReceiveReturned(-1)
  /\ ~pkt.present
  /\ radio.rssi # 0

(***************************************************************************)
(* C8: in an invocation of loop() whose receive returned CRC-Mismatch the  *)
(* payload is never written: the only line printed is the CRC error        *)
(* report, and neither getRSSI nor getSNR is called.                       *)
(***************************************************************************)
C8_CrcMismatchNoPayload ==
  ReceiveReturned(RADIOLIB_ERR_CRC_MISMATCH) =>
    /\ pc \in {"L111", "L145"}
    /\ rxCalls = <<Call("receive", RADIOLIB_ERR_CRC_MISMATCH)>>
    /\ pc = "L111" => Serial2.iter = <<>> /\ Serial2.cur = WaitBanner
    /\ pc = "L145" => Serial2.iter = <<WaitBanner \o "CRC error!">> /\ Serial2.cur = ""

C8_Witness ==
  /\ pc = "L145"
  /\ ReceiveReturned(RADIOLIB_ERR_CRC_MISMATCH)
  /\ str = "HELLO"
  /\ Len(Serial2.iter) = 1

(***************************************************************************)
(* C9: in an invocation of loop() whose receive returned Timeout the       *)
(* output is exactly one "timeout!" line: no data line, and neither        *)
(* getRSSI nor getSNR is called, before loop() returns.                    *)
(***************************************************************************)
C9_TimeoutOneLine ==
  ReceiveReturned(RADIOLIB_ERR_RX_TIMEOUT) =>
    /\ pc \in {"L111", "L145"}
    /\ \A i \in DOMAIN rxCalls : rxCalls[i].fn \notin {"getRSSI", "getSNR"}
    /\ Len(rxCalls) = 1
    /\ Len(Serial2.iter) = IF pc = "L145" THEN 1 ELSE 0
    /\ \A k \in DOMAIN Serial2.iter : Serial2.iter[k] = WaitBanner \o "timeout!"
    /\ Serial2.cur = IF pc = "L145" THEN "" ELSE WaitBanner

C9_Witness ==
  /\ pc = "L145"
  /\ ReceiveReturned(RADIOLIB_ERR_RX_TIMEOUT)
  /\ Serial2.iter = <<"[STM32WL] Waiting for incoming transmission ... timeout!">>

(***************************************************************************)
(* C10: in an invocation of loop() whose receive returned success the      *)
(* program prints, in this order, "success!", the data line with the       *)
(* payload of that receive, the RSSI line and the SNR line; getRSSI and    *)
(* getSNR are called after that receive and before the next one, and the   *)
(* values printed are those of the packet that receive delivered.          *)
(***************************************************************************)
SuccessLines(p) ==
  << WaitBanner \o "success!",
     "[STM32WL] Data:\t\t" \o p.payload,
     "[STM32WL] RSSI:\t\t" \o FormatFloat(p.rssi) \o " dBm",
     "[STM32WL] SNR:\t\t" \o FormatFloat(p.snr) \o " dB" >>

SuccessCalls(p) ==
  << Call("receive", RADIOLIB_ERR_NONE), Call("getRSSI", p.rssi),
     Call("getSNR", p.snr) >>

C10_SuccessReportsThisPacket ==
  ReceiveReturned(RADIOLIB_ERR_NONE) =>
    /\ pkt.present
    /\ pc \in {"L111", "L121", "L127", "L145"}
    /\ Serial2.iter = SubSeq(SuccessLines(pkt), 1,
                             CASE pc = "L111" -> 0 [] pc = "L121" -> 2
                               [] pc = "L127" -> 3 [] OTHER -> 4)
    /\ rxCalls = SubSeq(SuccessCalls(pkt), 1,
                        CASE pc = "L127" -> 2 [] pc = "L145" -> 3 [] OTHER -> 1)

\* the packet reported differs in every metric from the one the radio held
\* before: the scenario of the specification, with its output
C10_Witness ==
  /\ pc = "L145"
  /\ ReceiveReturned(RADIOLIB_ERR_NONE)
  /\ Serial2.iter = << "[STM32WL] Waiting for incoming transmission ... success!",
                       "[STM32WL] Data:\t\tHELLO",
                       "[STM32WL] RSSI:\t\t-90.50 dBm",
                       "[STM32WL] SNR:\t\t-7.25 dB" >>

=============================================================================
